---- MODULE Spec2Model ----
(***************************************************************************)
(* Model of the pull-request review bot: .github/scripts/review.js (the    *)
(* class-based implementation) and its function-based twin (part_000).     *)
(*                                                                         *)
(* Strings are sequences of one-character strings, so that startsWith,     *)
(* split, the hunk-header regular expression and Number() are computed     *)
(* character by character.  A JavaScript Set is a sequence without         *)
(* duplicates: its iteration order is its insertion order.                 *)
(***************************************************************************)
EXTENDS Integers, Sequences, FiniteSets, TLC

VARIABLES
    pc,          \* position of the run of the operation under study
    impl,        \* which implementation ran: "review.js" or "part_000"
    diff,        \* the unified diff, as structured lines (the input's meaning)
    patch,       \* file.patch: [has |-> BOOLEAN, text |-> characters]
    included,    \* the Set returned by parsePatchLineNumbers
    totalLines,  \* lines.length of the file's full content
    withContext, \* the Set of line numbers after context padding
    sortedLines, \* Array.from(withContext).sort(...).slice(0, MAX_LINES_PER_FILE)
    rerun,       \* the padding applied once more, to withContext
    changedFiles,\* the pull request's files: [filename, status]
    fileContents,\* Map filename -> lines of the file at the head revision
    rawComments, \* the "comments" field of the model's parsed response
    ghComments,  \* what the comment normalizer did: [threw, comments]
    original,    \* the object the model serialized: its members, in order
    responseText,\* result.response.text(): the model's raw text, as tokens
    recovered,   \* what safeParseJson did: [threw, isObject, value]
    actor,       \* process.env.GITHUB_ACTOR
    prAuthor,    \* pull_request.user.login
    event,       \* the review event main has computed
    calls,       \* the calls made to the GitHub API, in order
    outcome,     \* "running", "finished", or "failed" (process.exit(1))
    remote,      \* what repos.getContent answers for each changed file
    pending,     \* the files whose fetch of fetchAllFileContents is in flight
    contentsMap, \* the Map of file contents: its entries in insertion order
    snippets     \* what buildSnippets has returned: [blocks, text]

patchVars == <<diff, patch, included, totalLines, withContext, sortedLines, rerun>>

normVars == <<changedFiles, fileContents, rawComments, ghComments>>

jsonVars == <<original, responseText, recovered>>

runVars == <<actor, prAuthor, event, calls, outcome>>

batchVars == <<remote, pending, contentsMap, snippets>>

vars == <<pc, impl, patchVars, normVars, jsonVars, runVars, batchVars>>

\* What the operations on one file's patch leave alone, and their idle values.
outsidePatch == <<normVars, jsonVars, runVars, batchVars>>

\* What the comment normalizer leaves alone.
outsideNorm == <<patchVars, jsonVars, runVars, batchVars>>

\* What the recovery of the model's JSON leaves alone.
outsideJson == <<patchVars, normVars, runVars, batchVars>>

\* What a run of main from the model's answer on leaves alone.
outsideRun == <<patchVars, original, batchVars>>

\* What the gathering of contents and snippets leaves alone.
outsideBatch == <<patchVars, jsonVars, actor, prAuthor, event, calls>>

(***************************************************************************)
(* Bounds of the model                                                     *)
(***************************************************************************)
MaxPatchLines == 3
MaxSeed == 6          \* small seed sets: line numbers 0..MaxSeed
MaxSeeds == 81        \* large seed sets: this many changed lines, 5 apart
MaxComments == 1      \* arrays of arbitrary entries; pairs come from CoreEntries

(***************************************************************************)
(* Configuration                                                           *)
(***************************************************************************)
CONFIG_MAX_LINES_PER_FILE == 400
CONFIG_CONTEXT_PADDING == 2
CONTEXT_PADDING == 2
MAX_LINES_PER_FILE == 400

(***************************************************************************)
(* Characters and strings                                                  *)
(***************************************************************************)
NL == "\n"

Digits == <<"0", "1", "2", "3", "4", "5", "6", "7", "8", "9">>

IsDigit(ch) == \E i \in 1..10 : Digits[i] = ch

DigitValue(ch) == (CHOOSE i \in 1..10 : Digits[i] = ch) - 1

SetOf(s) == {s[i] : i \in 1..Len(s)}

SeqsUpTo(S, n) == UNION {[1..k -> S] : k \in 0..n}

\* String.prototype.startsWith
startsWith(s, prefix) ==
    /\ Len(prefix) <= Len(s)
    /\ \A k \in 1..Len(prefix) : s[k] = prefix[k]

\* The literal lit stands in s at index i.
LitAt(s, i, lit) ==
    /\ i >= 1
    /\ i + Len(lit) - 1 <= Len(s)
    /\ \A k \in 1..Len(lit) : s[i + k - 1] = lit[k]

\* The index after the longest run of digits of s that starts at index i
\* (a greedy \d+ ; the run is empty when the result is i).
DigitRunEnd(s, i) ==
    CHOOSE e \in i..(Len(s) + 1) :
        /\ \A k \in i..(e - 1) : IsDigit(s[k])
        /\ (e = Len(s) + 1 \/ ~IsDigit(s[e]))

\* Number(<string of decimal digits>)
RECURSIVE Number(_)
Number(ds) ==
    IF Len(ds) = 0 THEN 0
    ELSE 10 * Number(SubSeq(ds, 1, Len(ds) - 1)) + DigitValue(ds[Len(ds)])

\* String(n) for an integer n >= 0
RECURSIVE ToDec(_)
ToDec(n) ==
    IF n < 10 THEN <<Digits[n + 1]>>
    ELSE ToDec(n \div 10) \o <<Digits[(n % 10) + 1]>>

\* String.prototype.split("\n")
RECURSIVE split(_)
split(s) ==
    IF \A i \in 1..Len(s) : s[i] # NL THEN <<s>>
    ELSE LET i == CHOOSE j \in 1..Len(s) :
                      s[j] = NL /\ \A k \in 1..(j - 1) : s[k] # NL
         IN  <<SubSeq(s, 1, i - 1)>> \o split(SubSeq(s, i + 1, Len(s)))

\* Array.prototype.join("\n")
RECURSIVE join(_)
join(ls) ==
    IF Len(ls) = 0 THEN <<>>
    ELSE IF Len(ls) = 1 THEN ls[1]
    ELSE ls[1] \o <<NL>> \o join(Tail(ls))

\* Set.prototype.add on a Set kept in insertion order
SetAdd(s, x) == IF x \in SetOf(s) THEN s ELSE Append(s, x)

(***************************************************************************)
(* The hunk-header regular expressions                                     *)
(***************************************************************************)
\* /@@ -\d+(?:,\d+)? \+(\d+)/ tried at index p of s: the end of the optional
\* ",\d+" group, and whether the expression matches there.
OldRangeEnd(s, p) ==
    LET e1 == DigitRunEnd(s, p + 4)
    IN  IF LitAt(s, e1, <<",">>) /\ DigitRunEnd(s, e1 + 1) > e1 + 1
        THEN DigitRunEnd(s, e1 + 1)
        ELSE e1

ReviewHeaderAt(s, p) ==
    /\ LitAt(s, p, <<"@", "@", " ", "-">>)
    /\ DigitRunEnd(s, p + 4) > p + 4
    /\ LitAt(s, OldRangeEnd(s, p), <<" ", "+">>)
    /\ DigitRunEnd(s, OldRangeEnd(s, p) + 2) > OldRangeEnd(s, p) + 2

\* /@@ -\d+(?:,\d+)? \+(\d+)(?:,(\d+))? @@/ tried at index p of s
NewRangeEnd(s, p) ==
    LET b  == OldRangeEnd(s, p) + 2
        e3 == DigitRunEnd(s, b)
    IN  IF LitAt(s, e3, <<",">>) /\ DigitRunEnd(s, e3 + 1) > e3 + 1
        THEN DigitRunEnd(s, e3 + 1)
        ELSE e3

Part000HeaderAt(s, p) ==
    /\ ReviewHeaderAt(s, p)
    /\ LitAt(s, NewRangeEnd(s, p), <<" ", "@", "@">>)

\* match[1] of the leftmost match that starts at index p
Capture1(s, p) ==
    LET b == OldRangeEnd(s, p) + 2
    IN  SubSeq(s, b, DigitRunEnd(s, b) - 1)

(***************************************************************************)
(* parsePatchLineNumbers, review.js                                        *)
(***************************************************************************)
\* The loop body recording added lines only, not retained ones.
FileManager_parseLine_additionsOnly(st, line) ==
    IF startsWith(line, <<"@", "@">>)
    THEN IF \E p \in 1..Len(line) : ReviewHeaderAt(line, p)
         THEN LET p == CHOOSE q \in 1..Len(line) :
                           /\ ReviewHeaderAt(line, q)
                           /\ \A r \in 1..(q - 1) : ~ReviewHeaderAt(line, r)
              IN  [st EXCEPT !.newLine = Number(Capture1(line, p))]
         ELSE st
    ELSE IF startsWith(line, <<"+">>)
    THEN [newLine |-> st.newLine + 1, included |-> SetAdd(st.included, st.newLine)]
    ELSE IF startsWith(line, <<" ">>)
    THEN [st EXCEPT !.newLine = st.newLine + 1]
    ELSE st

\* One iteration of the for loop: st = [newLine, included].
FileManager_parseLine(st, line) ==
    IF startsWith(line, <<"@", "@">>)
    THEN IF \E p \in 1..Len(line) : ReviewHeaderAt(line, p)
         THEN LET p == CHOOSE q \in 1..Len(line) :
                           /\ ReviewHeaderAt(line, q)
                           /\ \A r \in 1..(q - 1) : ~ReviewHeaderAt(line, r)
              IN  [st EXCEPT !.newLine = Number(Capture1(line, p))]
         ELSE st
    ELSE IF startsWith(line, <<"+">>) \/ startsWith(line, <<" ">>)
    THEN [newLine |-> st.newLine + 1, included |-> SetAdd(st.included, st.newLine)]
    ELSE st

RECURSIVE FileManager_parseLines(_, _)
FileManager_parseLines(st, lines) ==
    IF Len(lines) = 0 THEN st
    ELSE FileManager_parseLines(FileManager_parseLine(st, Head(lines)), Tail(lines))

FileManager_parsePatchLineNumbers(p) ==
    IF ~p.has \/ Len(p.text) = 0 THEN <<>>
    ELSE FileManager_parseLines([newLine |-> 0, included |-> <<>>], split(p.text)).included

(***************************************************************************)
(* parsePatchLineNumbers, part_000                                         *)
(***************************************************************************)
\* The loop body with the slip of advancing the cursor on a deleted line.
parseLine_deletionAdvances(st, line) ==
    IF startsWith(line, <<"@", "@">>)
    THEN IF \E p \in 1..Len(line) : Part000HeaderAt(line, p)
         THEN LET p == CHOOSE q \in 1..Len(line) :
                           /\ Part000HeaderAt(line, q)
                           /\ \A r \in 1..(q - 1) : ~Part000HeaderAt(line, r)
              IN  [st EXCEPT !.newLine = Number(Capture1(line, p))]
         ELSE st
    ELSE IF startsWith(line, <<"+">>) \/ startsWith(line, <<" ">>)
    THEN [newLine |-> st.newLine + 1, included |-> SetAdd(st.included, st.newLine)]
    ELSE IF startsWith(line, <<"-">>)
    THEN [st EXCEPT !.newLine = st.newLine + 1]
    ELSE st

parseLine(st, line) ==
    IF startsWith(line, <<"@", "@">>)
    THEN IF \E p \in 1..Len(line) : Part000HeaderAt(line, p)
         THEN LET p == CHOOSE q \in 1..Len(line) :
                           /\ Part000HeaderAt(line, q)
                           /\ \A r \in 1..(q - 1) : ~Part000HeaderAt(line, r)
              IN  [st EXCEPT !.newLine = Number(Capture1(line, p))]
         ELSE st
    ELSE IF startsWith(line, <<"+">>) \/ startsWith(line, <<" ">>)
    THEN [newLine |-> st.newLine + 1, included |-> SetAdd(st.included, st.newLine)]
    ELSE IF startsWith(line, <<"-">>)
    THEN st
    ELSE st

RECURSIVE parseLines(_, _)
parseLines(st, lines) ==
    IF Len(lines) = 0 THEN st
    ELSE parseLines(parseLine(st, Head(lines)), Tail(lines))

parsePatchLineNumbers(p) ==
    IF ~p.has \/ Len(p.text) = 0 THEN <<>>
    ELSE parseLines([newLine |-> 0, included |-> <<>>], split(p.text)).included

(***************************************************************************)
(* Context padding, sort and cap: review.js, buildSnippets                 *)
(***************************************************************************)
\* for (let i = -PADDING; i <= PADDING; i++) ... for one line of validLines
RECURSIVE FileManager_padLine(_, _, _, _)
FileManager_padLine(acc, line, i, len) ==
    IF i > CONFIG_CONTEXT_PADDING THEN acc
    ELSE LET candidate == line + i
         IN  FileManager_padLine(
                 IF candidate >= 1 /\ candidate <= len THEN SetAdd(acc, candidate) ELSE acc,
                 line, i + 1, len)

\* for (const line of validLines): the lines at indexes lo..hi, in order
\* (the range is halved so that the evaluation stays shallow)
RECURSIVE FileManager_padLines(_, _, _, _, _)
FileManager_padLines(acc, validLines, lo, hi, len) ==
    IF lo > hi THEN acc
    ELSE IF lo = hi
    THEN FileManager_padLine(acc, validLines[lo], -CONFIG_CONTEXT_PADDING, len)
    ELSE LET mid  == (lo + hi) \div 2
             done == FileManager_padLines(acc, validLines, lo, mid, len)
         IN  IF Len(done) >= 0    \* the first half is computed before the second
             THEN FileManager_padLines(done, validLines, mid + 1, hi, len)
             ELSE done

FileManager_linesWithContext(validLines, len) ==
    FileManager_padLines(<<>>, validLines, 1, Len(validLines), len)

\* The array left unsorted: the Set's insertion order, cut to the cap.
FileManager_sortedLines_unsorted(linesWithContext) ==
    SubSeq(linesWithContext, 1,
           IF Len(linesWithContext) < CONFIG_MAX_LINES_PER_FILE
           THEN Len(linesWithContext) ELSE CONFIG_MAX_LINES_PER_FILE)

FileManager_sortedLines(linesWithContext) ==
    LET sorted == SortSeq(linesWithContext, LAMBDA a, b : a < b)
    IN  SubSeq(sorted, 1,
               IF Len(sorted) < CONFIG_MAX_LINES_PER_FILE
               THEN Len(sorted) ELSE CONFIG_MAX_LINES_PER_FILE)

(***************************************************************************)
(* Context padding, sort and cap: part_000                                 *)
(***************************************************************************)
\* The inner loop without its upper clamp (candidate <= totalLines).
RECURSIVE addContextDeltas_noUpperClamp(_, _, _, _)
addContextDeltas_noUpperClamp(acc, line, delta, total) ==
    IF delta > CONTEXT_PADDING THEN acc
    ELSE LET candidate == line + delta
         IN  addContextDeltas_noUpperClamp(
                 IF candidate >= 1 THEN SetAdd(acc, candidate) ELSE acc,
                 line, delta + 1, total)

RECURSIVE addContextDeltas(_, _, _, _)
addContextDeltas(acc, line, delta, total) ==
    IF delta > CONTEXT_PADDING THEN acc
    ELSE LET candidate == line + delta
         IN  addContextDeltas(
                 IF candidate >= 1 /\ candidate <= total THEN SetAdd(acc, candidate) ELSE acc,
                 line, delta + 1, total)

\* for (const line of lineNumbers): the lines at indexes lo..hi, in order
\* (the range is halved so that the evaluation stays shallow)
RECURSIVE addContextLoop(_, _, _, _, _)
addContextLoop(acc, lineNumbers, lo, hi, total) ==
    IF lo > hi THEN acc
    ELSE IF lo = hi
    THEN addContextDeltas(acc, lineNumbers[lo], -CONTEXT_PADDING, total)
    ELSE LET mid  == (lo + hi) \div 2
             done == addContextLoop(acc, lineNumbers, lo, mid, total)
         IN  IF Len(done) >= 0    \* the first half is computed before the second
             THEN addContextLoop(done, lineNumbers, mid + 1, hi, total)
             ELSE done

addContextLines(lineNumbers, total) ==
    addContextLoop(<<>>, lineNumbers, 1, Len(lineNumbers), total)

\* The cap taken from the end of the sorted array (slice(-MAX)).
sortAndCap_keepsTail(lineNumbersWithContext) ==
    LET sorted == SortSeq(lineNumbersWithContext, LAMBDA a, b : a < b)
    IN  SubSeq(sorted,
               IF Len(sorted) < MAX_LINES_PER_FILE THEN 1
               ELSE Len(sorted) - MAX_LINES_PER_FILE + 1,
               Len(sorted))

\* Array.from(lineNumbersWithContext).sort((a, b) => a - b).slice(0, MAX_LINES_PER_FILE)
sortAndCap(lineNumbersWithContext) ==
    LET sorted == SortSeq(lineNumbersWithContext, LAMBDA a, b : a < b)
    IN  SubSeq(sorted, 1,
               IF Len(sorted) < MAX_LINES_PER_FILE THEN Len(sorted) ELSE MAX_LINES_PER_FILE)

(***************************************************************************)
(* JavaScript values of the model's JSON                                   *)
(***************************************************************************)
\* A number is counted in halves (h = 7 is 3.5), or is NaN.
Num(h) == [nan |-> FALSE, h |-> h]

NaN == [nan |-> TRUE, h |-> 0]

Whole(k) == Num(2 * k)

Number_isInteger(n) == ~n.nan /\ n.h % 2 = 0

\* a < b and a > b on numbers: false when either is NaN
Lt(a, b) == ~a.nan /\ ~b.nan /\ a.h < b.h

Gt(a, b) == Lt(b, a)

Ge(a, b) == ~a.nan /\ ~b.nan /\ a.h >= b.h

Math_min(a, b) == IF a.nan \/ b.nan THEN NaN ELSE IF a.h <= b.h THEN a ELSE b

\* A value: undefined (an absent field), null, a number or a string.
Undefined == [t |-> "undefined", n |-> NaN, s |-> <<>>]

Null == [t |-> "null", n |-> NaN, s |-> <<>>]

NumberVal(n) == [t |-> "number", n |-> n, s |-> <<>>]

StringVal(s) == [t |-> "string", n |-> NaN, s |-> s]

\* Number(v)
ToNumber(v) ==
    CASE v.t = "undefined" -> NaN
      [] v.t = "null"      -> Whole(0)
      [] v.t = "number"    -> v.n
      [] v.t = "string"    ->
            IF Len(v.s) = 0 THEN Whole(0)
            ELSE IF \A i \in 1..Len(v.s) : IsDigit(v.s[i]) THEN Whole(Number(v.s))
            ELSE NaN

\* The truth value of v in a condition
Truthy(v) ==
    CASE v.t = "number" -> ~v.n.nan /\ v.n.h # 0
      [] v.t = "string" -> Len(v.s) > 0
      [] v.t = "object" -> TRUE
      [] OTHER          -> FALSE

\* An entry of the comments array: an object with the four fields (any of
\* them absent), null, or a primitive (a number or a string).
CommentObject(filepath, start_line, end_line, comment) ==
    [kind |-> "object", filepath |-> filepath, start_line |-> start_line,
     end_line |-> end_line, comment |-> comment, value |-> Undefined]

NullEntry ==
    [kind |-> "null", filepath |-> Undefined, start_line |-> Undefined,
     end_line |-> Undefined, comment |-> Undefined, value |-> Null]

Primitive(v) ==
    [kind |-> "primitive", filepath |-> Undefined, start_line |-> Undefined,
     end_line |-> Undefined, comment |-> Undefined, value |-> v]

\* The "comments" field: an array, or something else (absent, null, a number,
\* an object, a string).
ArrayOf(items) == [kind |-> "array", items |-> items]

NotArray(kind) == [kind |-> kind, items |-> <<>>]

StringOf(chars) ==
    [kind |-> "string", items |-> [i \in 1..Len(chars) |-> Primitive(StringVal(<<chars[i]>>))]]

\* for (const c of x): only arrays and strings can be iterated
Iterable(x) == x.kind \in {"array", "string"}

\* Map.prototype.has, Map.prototype.get
MapHas(map, key) == key.t = "string" /\ key.s \in DOMAIN map

\* new Set(changedFiles.map(f => f.filename)), and Set.prototype.has
Filenames(files) == {files[i].filename : i \in 1..Len(files)}

SetHas(set, key) == key.t = "string" /\ key.s \in set

\* A comment as the review API takes it.
ReviewComment(path, body, line, hasStart, start) ==
    [path |-> path, body |-> body, side |-> "RIGHT", line |-> line,
     has_start_line |-> hasStart, start_line |-> start,
     start_side |-> IF hasStart THEN "RIGHT" ELSE ""]

NoComment == ReviewComment(<<>>, Undefined, NaN, FALSE, NaN)

(***************************************************************************)
(* GitHubService._normalizeComments, review.js                             *)
(***************************************************************************)
\* One iteration: "throw" (c.filepath of null), "skip" (continue) or "push".
GitHubService_normalizeOne(c, contents, validPaths) ==
    IF c.kind = "null" THEN [does |-> "throw", comment |-> NoComment]
    ELSE IF ~Truthy(c.filepath) \/ ~SetHas(validPaths, c.filepath)
    THEN [does |-> "skip", comment |-> NoComment]
    ELSE LET hasLines == MapHas(contents, c.filepath)
             length   == IF hasLines THEN Whole(Len(contents[c.filepath.s])) ELSE NaN
             start    == ToNumber(c.start_line)
         IN  IF ~Number_isInteger(start) \/ Lt(start, Whole(1))
             THEN [does |-> "skip", comment |-> NoComment]
             ELSE IF hasLines /\ Gt(start, length)
             THEN [does |-> "skip", comment |-> NoComment]
             ELSE IF Truthy(c.end_line) /\ Gt(ToNumber(c.end_line), start)
             THEN LET end == Math_min(ToNumber(c.end_line),
                                      IF hasLines THEN length ELSE ToNumber(c.end_line))
                  IN  [does |-> "push",
                       comment |-> ReviewComment(c.filepath.s, c.comment, end, TRUE, start)]
             ELSE [does |-> "push",
                   comment |-> ReviewComment(c.filepath.s, c.comment, start, FALSE, NaN)]

RECURSIVE GitHubService_normalizeLoop(_, _, _, _)
GitHubService_normalizeLoop(results, items, contents, validPaths) ==
    IF Len(items) = 0 THEN [threw |-> FALSE, comments |-> results]
    ELSE LET step == GitHubService_normalizeOne(Head(items), contents, validPaths)
         IN  IF step.does = "throw" THEN [threw |-> TRUE, comments |-> <<>>]
             ELSE GitHubService_normalizeLoop(
                      IF step.does = "push" THEN Append(results, step.comment) ELSE results,
                      Tail(items), contents, validPaths)

GitHubService_normalizeComments(comments, contents, files) ==
    IF ~Iterable(comments) THEN [threw |-> TRUE, comments |-> <<>>]
    ELSE GitHubService_normalizeLoop(<<>>, comments.items, contents, Filenames(files))

(***************************************************************************)
(* parseModelResponse (comments) and normalizeReviewComments, part_000     *)
(***************************************************************************)
\* Array.isArray(parsed.comments) ? parsed.comments : []
parseModelResponse_comments(comments) ==
    IF comments.kind = "array" THEN comments.items ELSE <<>>

normalizeOne(c, contents, changedSet) ==
    IF \/ c.kind = "null"
       \/ (c.kind = "primitive" /\ ~Truthy(c.value))
       \/ ~Truthy(c.filepath)
       \/ ~SetHas(changedSet, c.filepath)
    THEN [does |-> "skip", comment |-> NoComment]
    ELSE IF ~MapHas(contents, c.filepath)
    THEN [does |-> "skip", comment |-> NoComment]
    ELSE LET start   == ToNumber(c.start_line)
             end     == IF c.end_line.t # "undefined" THEN ToNumber(c.end_line) ELSE start
             safeEnd == IF Number_isInteger(end) /\ Ge(end, start) THEN end ELSE start
             maxLine == Whole(Len(contents[c.filepath.s]))
         IN  IF ~Number_isInteger(start) \/ Lt(start, Whole(1))
             THEN [does |-> "skip", comment |-> NoComment]
             ELSE IF Gt(start, maxLine)
             THEN [does |-> "skip", comment |-> NoComment]
             ELSE [does |-> "push",
                   comment |-> ReviewComment(
                       c.filepath.s,
                       IF Truthy(c.comment) THEN c.comment ELSE StringVal(<<>>),
                       Math_min(safeEnd, maxLine),
                       safeEnd # start /\ ~Gt(safeEnd, maxLine),
                       IF safeEnd # start /\ ~Gt(safeEnd, maxLine) THEN start ELSE NaN)]

RECURSIVE normalizeLoop(_, _, _, _)
normalizeLoop(results, items, contents, changedSet) ==
    IF Len(items) = 0 THEN [threw |-> FALSE, comments |-> results]
    ELSE LET step == normalizeOne(Head(items), contents, changedSet)
         IN  normalizeLoop(
                 IF step.does = "push" THEN Append(results, step.comment) ELSE results,
                 Tail(items), contents, changedSet)

normalizeReviewComments(modelComments, contents, files) ==
    normalizeLoop(<<>>, modelComments, contents, Filenames(files))

(***************************************************************************)
(* Unified diffs as GitHub delivers them in file.patch                     *)
(***************************************************************************)
\* A line of a diff, by its meaning: a hunk header "@@ -a,b +c,d @@" (or
\* "@@ -a +c @@" when short), an added, a retained or a deleted line, the
\* "\ No newline at end of file" marker, or a line that starts with "@@" and
\* is no hunk header.
Hunk(a, b, c, d, short) ==
    [kind |-> "hunk", a |-> a, b |-> b, c |-> c, d |-> d, short |-> short, text |-> <<>>]

Content(kind, text) ==
    [kind |-> kind, a |-> 0, b |-> 0, c |-> 0, d |-> 0, short |-> FALSE, text |-> text]

RenderLine(l) ==
    CASE l.kind = "hunk" ->
            <<"@", "@", " ", "-">> \o ToDec(l.a)
            \o (IF l.short THEN <<>> ELSE <<",">> \o ToDec(l.b))
            \o <<" ", "+">> \o ToDec(l.c)
            \o (IF l.short THEN <<>> ELSE <<",">> \o ToDec(l.d))
            \o <<" ", "@", "@">> \o l.text
      [] l.kind = "add"  -> <<"+">> \o l.text
      [] l.kind = "ctx"  -> <<" ">> \o l.text
      [] l.kind = "del"  -> <<"-">> \o l.text
      [] l.kind = "nonl" -> <<"\\", " ", "N">> \o l.text
      [] l.kind = "junk" -> <<"@", "@">> \o l.text

RenderPatch(d) == join([i \in 1..Len(d) |-> RenderLine(d[i])])

LineVocab ==
    { Hunk(1, 3, 1, 4, FALSE),
      Hunk(7, 0, 12, 0, TRUE),
      [Hunk(3, 2, 3, 1, FALSE) EXCEPT !.text = <<" ", "f", "(", ")">>],
      Hunk(1, 2, 0, 0, FALSE),
      Content("add", <<"x">>),
      Content("add", <<>>),
      Content("ctx", <<"x">>),
      Content("del", <<"x">>),
      Content("nonl", <<>>),
      Content("junk", <<" ", "x">>) }

ScenarioDiff ==
    << Hunk(1, 3, 1, 4, FALSE),
       Content("ctx", <<"l", "i", "n", "e", "1">>),
       Content("add", <<"l", "i", "n", "e", "2">>),
       Content("ctx", <<"l", "i", "n", "e", "3">>),
       Content("ctx", <<"l", "i", "n", "e", "4">>) >>

Diffs == SeqsUpTo(LineVocab, MaxPatchLines) \cup {ScenarioDiff}

(***************************************************************************)
(* Idle values of the variables an operation under study does not use      *)
(***************************************************************************)
IdlePatch ==
    /\ diff = <<>>
    /\ patch = [has |-> FALSE, text |-> <<>>]
    /\ included = <<>>
    /\ totalLines = 1
    /\ withContext = <<>>
    /\ sortedLines = <<>>
    /\ rerun = <<>>

IdleNorm ==
    /\ changedFiles = <<>>
    /\ fileContents = <<>>
    /\ rawComments = <<>>
    /\ ghComments = <<>>

IdleJson ==
    /\ original = <<>>
    /\ responseText = <<>>
    /\ recovered = <<>>

IdleBatch ==
    /\ remote = <<>>
    /\ pending = {}
    /\ contentsMap = <<>>
    /\ snippets = <<>>

IdleRun ==
    /\ actor = Undefined
    /\ prAuthor = Undefined
    /\ event = ""
    /\ calls = <<>>
    /\ outcome = "running"

(***************************************************************************)
(* The run of parsePatchLineNumbers on one file's patch                    *)
(***************************************************************************)
InitPatch ==
    /\ pc = "patch"
    /\ impl = "-"
    /\ diff \in Diffs
    /\ patch \in {[has |-> TRUE, text |-> RenderPatch(diff)]}
                 \cup (IF diff = <<>> THEN {[has |-> FALSE, text |-> <<>>]} ELSE {})
    /\ included = <<>>
    /\ totalLines \in {1, 4, 13}
    /\ withContext = <<>>
    /\ sortedLines = <<>>
    /\ rerun = <<>>
    /\ IdleNorm
    /\ IdleJson
    /\ IdleRun
    /\ IdleBatch

RunFileManagerParse ==
    /\ pc = "patch"
    /\ pc' = "parsed"
    /\ impl' = "review.js"
    /\ included' = FileManager_parsePatchLineNumbers(patch)
    /\ UNCHANGED <<diff, patch, totalLines, withContext, sortedLines, rerun>>
    /\ UNCHANGED outsidePatch

RunParse ==
    /\ pc = "patch"
    /\ pc' = "parsed"
    /\ impl' = "part_000"
    /\ included' = parsePatchLineNumbers(patch)
    /\ UNCHANGED <<diff, patch, totalLines, withContext, sortedLines, rerun>>
    /\ UNCHANGED outsidePatch

(***************************************************************************)
(* The context window of one file: padding, then sort and cap              *)
(***************************************************************************)
\* buildSnippets, review.js: the padding loop
FileManagerAddContext ==
    /\ pc = "parsed"
    /\ impl = "review.js"
    /\ pc' = "context"
    /\ withContext' = FileManager_linesWithContext(included, totalLines)
    /\ UNCHANGED <<impl, diff, patch, included, totalLines, sortedLines, rerun>>
    /\ UNCHANGED outsidePatch

\* buildFileSnippets, part_000: addContextLines(lineNumbers, lines.length)
AddContext ==
    /\ pc = "parsed"
    /\ impl = "part_000"
    /\ pc' = "context"
    /\ withContext' = addContextLines(included, totalLines)
    /\ UNCHANGED <<impl, diff, patch, included, totalLines, sortedLines, rerun>>
    /\ UNCHANGED outsidePatch

FileManagerSortAndCap ==
    /\ pc = "context"
    /\ impl = "review.js"
    /\ pc' = "window"
    /\ sortedLines' = FileManager_sortedLines(withContext)
    /\ UNCHANGED <<impl, diff, patch, included, totalLines, withContext, rerun>>
    /\ UNCHANGED outsidePatch

SortAndCap ==
    /\ pc = "context"
    /\ impl = "part_000"
    /\ pc' = "window"
    /\ sortedLines' = sortAndCap(withContext)
    /\ UNCHANGED <<impl, diff, patch, included, totalLines, withContext, rerun>>
    /\ UNCHANGED outsidePatch

\* The padding run a second time, seeded with its own output.
FileManagerRerunContext ==
    /\ pc = "context"
    /\ impl = "review.js"
    /\ pc' = "rerun"
    /\ rerun' = FileManager_linesWithContext(withContext, totalLines)
    /\ UNCHANGED <<impl, diff, patch, included, totalLines, withContext, sortedLines>>
    /\ UNCHANGED outsidePatch

RerunContext ==
    /\ pc = "context"
    /\ impl = "part_000"
    /\ pc' = "rerun"
    /\ rerun' = addContextLines(withContext, totalLines)
    /\ UNCHANGED <<impl, diff, patch, included, totalLines, withContext, sortedLines>>
    /\ UNCHANGED outsidePatch

NextWindow ==
    \/ FileManagerAddContext
    \/ AddContext
    \/ FileManagerSortAndCap
    \/ SortAndCap
    \/ FileManagerRerunContext
    \/ RerunContext

NextPatch == RunFileManagerParse \/ RunParse \/ NextWindow

SpecPatch == InitPatch /\ [][NextPatch]_vars

\* Seed sets given directly: every short duplicate-free sequence of small line
\* numbers, and long runs of changed lines five apart, ascending or descending
\* (hunks need not come in ascending order), long enough to pass the cap.
SmallSeeds ==
    {s \in SeqsUpTo(0..MaxSeed, 2) : \A i, j \in 1..Len(s) : i # j => s[i] # s[j]}

Ascending(first, n) == [i \in 1..n |-> first + 5 * (i - 1)]

Descending(first, n) == [i \in 1..n |-> first + 5 * (n - i)]

LargeSeeds ==
    UNION {{Ascending(3, n), Descending(3, n), Ascending(1, n)} : n \in {MaxSeeds - 2, MaxSeeds}}

InitWindow ==
    /\ pc = "parsed"
    /\ impl \in {"review.js", "part_000"}
    /\ diff = <<>>
    /\ patch = [has |-> FALSE, text |-> <<>>]
    /\ \/ included \in SmallSeeds /\ totalLines \in {1, 3, MaxSeed, MaxSeed + 3}
       \/ included \in LargeSeeds
          /\ totalLines \in {MAX_LINES_PER_FILE - 1, MAX_LINES_PER_FILE,
                             MAX_LINES_PER_FILE + 1, MAX_LINES_PER_FILE + 9}
    /\ withContext = <<>>
    /\ sortedLines = <<>>
    /\ rerun = <<>>
    /\ IdleNorm
    /\ IdleJson
    /\ IdleRun
    /\ IdleBatch

SpecWindow == InitWindow /\ [][NextWindow]_vars

(***************************************************************************)
(* The new-file coordinates of a diff, read off its structure              *)
(***************************************************************************)
IsContent(l) == l.kind \in {"add", "ctx"}

HeadersBefore(d, i) == {j \in 1..(i - 1) : d[j].kind = "hunk"}

\* Every added or retained line comes after a hunk header.
ContentFollowsHeader(d) ==
    \A i \in 1..Len(d) : IsContent(d[i]) => HeadersBefore(d, i) # {}

\* The new-file line number of content line i: the start of its hunk plus the
\* number of added or retained lines of the hunk above it.
NewLineNumber(d, i) ==
    LET h == CHOOSE j \in HeadersBefore(d, i) : \A k \in HeadersBefore(d, i) : k <= j
    IN  d[h].c + Cardinality({j \in (h + 1)..(i - 1) : IsContent(d[j])})

NewFileLines(d) == {NewLineNumber(d, i) : i \in {j \in 1..Len(d) : IsContent(d[j])}}

\* C1: for a patch whose content lines all follow a hunk header, both
\* parsePatchLineNumbers return exactly the new-file line numbers of its '+'
\* and ' ' lines: a header resets the cursor to c, a '+' or ' ' line adds the
\* cursor and advances it, a '-' line does neither.
C1_ParseYieldsNewFileLines ==
    (pc = "parsed" /\ ContentFollowsHeader(diff))
        => SetOf(included) = NewFileLines(diff)

\* A parsed patch with a deletion between a hunk header and a content line.
C1_Witness ==
    /\ pc = "parsed"
    /\ impl = "part_000"
    /\ ContentFollowsHeader(diff)
    /\ Len(diff) = 3
    /\ diff[1].kind = "hunk" /\ diff[1].c = 12
    /\ diff[2].kind = "del"
    /\ diff[3].kind = "add"
    /\ included = <<12>>

(***************************************************************************)
(* The context window, stated on sets                                      *)
(***************************************************************************)
\* The lines of 1..total within radius of a seed.
Expand(seeds, radius, total) ==
    {x \in UNION {(n - radius)..(n + radius) : n \in seeds} : 1 <= x /\ x <= total}

StrictlyAscending(s) == \A i \in 1..(Len(s) - 1) : s[i] < s[i + 1]

Capped(n) == IF n < MAX_LINES_PER_FILE THEN n ELSE MAX_LINES_PER_FILE

\* C3: the context-window sequence (padding, clamp, sort, slice) is strictly
\* ascending, so free of duplicates, lies within 1..totalLines and is no
\* longer than MAX_LINES_PER_FILE.
C3_WindowAscendingBoundedCapped ==
    pc = "window" =>
        /\ StrictlyAscending(sortedLines)
        /\ \A i \in 1..Len(sortedLines) : 1 <= sortedLines[i] /\ sortedLines[i] <= totalLines
        /\ Len(sortedLines) <= MAX_LINES_PER_FILE

\* A window cut by the cap, built from seeds that came in descending order.
C3_Witness ==
    /\ pc = "window"
    /\ Len(withContext) > MAX_LINES_PER_FILE
    /\ Len(sortedLines) = MAX_LINES_PER_FILE
    /\ Len(included) > 1 /\ included[1] > included[2]

\* C4: the context window is the MAX_LINES_PER_FILE smallest lines, ascending,
\* of the union over the seeds n of n-R..n+R within 1..totalLines: nothing is
\* left out when the union fits the cap, and only the highest lines otherwise.
C4_WindowIsLowestOfUnion ==
    pc = "window" =>
        LET union  == Expand(SetOf(included), CONTEXT_PADDING, totalLines)
            window == SetOf(sortedLines)
        IN  /\ StrictlyAscending(sortedLines)
            /\ window \subseteq union
            /\ Len(sortedLines) = Capped(Cardinality(union))
            /\ \A x \in union \ window : \A y \in window : y < x

\* A window from which the cap dropped lines.
C4_Witness ==
    /\ pc = "window"
    /\ Cardinality(Expand(SetOf(included), CONTEXT_PADDING, totalLines)) > MAX_LINES_PER_FILE
    /\ Len(sortedLines) = MAX_LINES_PER_FILE
    /\ sortedLines[1] = 1

\* C5 as stated: padding run again on its own output yields the same set.
C5_RerunYieldsSameSet ==
    pc = "rerun" => SetOf(rerun) = SetOf(withContext)

\* C5, amended: padding run again on its own output yields a superset of the
\* first output that stays within 1..totalLines, and the same set exactly when
\* the first output is empty or already all of 1..totalLines.
C5_RerunGrowsUntilFileIsCovered ==
    pc = "rerun" =>
        /\ SetOf(withContext) \subseteq SetOf(rerun)
        /\ SetOf(rerun) \subseteq 1..totalLines
        /\ SetOf(rerun) = Expand(SetOf(withContext), CONTEXT_PADDING, totalLines)
        /\ (SetOf(rerun) = SetOf(withContext))
               <=> (SetOf(withContext) = {} \/ SetOf(withContext) = 1..totalLines)

\* A second run that added lines to the first.
C5_Witness ==
    /\ pc = "rerun"
    /\ SetOf(withContext) # {}
    /\ SetOf(withContext) # SetOf(rerun)
    /\ Len(rerun) = Len(withContext) + CONTEXT_PADDING

(***************************************************************************)
(* The scenario patch                                                      *)
(***************************************************************************)
\* "@@ -1,3 +1,4 @@\n line1\n+line2\n line3\n line4"
ScenarioText ==
    <<"@", "@", " ", "-", "1", ",", "3", " ", "+", "1", ",", "4", " ", "@", "@", NL,
      " ", "l", "i", "n", "e", "1", NL,
      "+", "l", "i", "n", "e", "2", NL,
      " ", "l", "i", "n", "e", "3", NL,
      " ", "l", "i", "n", "e", "4">>

OnScenario ==
    /\ pc = "context"
    /\ patch = [has |-> TRUE, text |-> ScenarioText]
    /\ totalLines = 4

\* C6 as stated: for the scenario patch the addressable new-line set with
\* radius 0 is {2}, and with radius 2 and 4 lines the context set is {1,2,3,4}.
C6_ScenarioAdditionOnly ==
    OnScenario =>
        /\ Expand(SetOf(included), 0, totalLines) = {2}
        /\ SetOf(withContext) = {1, 2, 3, 4}

\* C6, amended: for the scenario patch the addressable new-line set (radius 0)
\* is {1,2,3,4}, the retained lines 1, 3, 4 and the added line 2, and with
\* radius 2 and 4 lines the context set is {1,2,3,4}.
C6_ScenarioAllNewFileLines ==
    OnScenario =>
        /\ SetOf(included) = {1, 2, 3, 4}
        /\ Expand(SetOf(included), 0, totalLines) = {1, 2, 3, 4}
        /\ SetOf(withContext) = {1, 2, 3, 4}

\* The scenario patch parsed and padded by review.js.
C6_Witness ==
    /\ OnScenario
    /\ impl = "review.js"
    /\ diff = ScenarioDiff
    /\ included = <<1, 2, 3, 4>>
    /\ withContext = <<1, 2, 3, 4>>

(***************************************************************************)
(* The comment normalizer on the model's comments                          *)
(***************************************************************************)
FileA == <<"a">>     \* changed, its content fetched
FileR == <<"r">>     \* changed with status "removed": no content is fetched
FileZ == <<"z">>     \* not part of the pull request

FileLines(n) == [i \in 1..n |-> <<"x">>]

Filepaths == {Undefined, StringVal(FileA), StringVal(FileR), StringVal(FileZ)}

StartLines ==
    {Undefined, NumberVal(Whole(0)), NumberVal(Whole(1)), NumberVal(Whole(2)),
     NumberVal(Num(5)), NumberVal(Whole(9)), StringVal(<<"2">>)}

EndLines ==
    {Undefined, Null, NumberVal(Whole(0)), NumberVal(Whole(3)), NumberVal(Num(7)),
     NumberVal(Whole(9)), StringVal(<<"3">>)}

CommentTexts == {Undefined, StringVal(<<"o", "k">>)}

Entries ==
    {CommentObject(f, a, b, t) :
        f \in Filepaths, a \in StartLines, b \in EndLines, t \in CommentTexts}
    \cup {NullEntry, Primitive(NumberVal(Whole(5))), Primitive(StringVal(<<"s">>))}

CoreEntries ==
    {NullEntry,
     CommentObject(StringVal(FileA), NumberVal(Whole(1)), Undefined, StringVal(<<"o", "k">>)),
     CommentObject(StringVal(FileA), NumberVal(Whole(2)), NumberVal(Whole(3)), Undefined),
     CommentObject(StringVal(FileA), NumberVal(Whole(9)), Undefined, StringVal(<<"o", "k">>)),
     CommentObject(StringVal(FileZ), NumberVal(Whole(1)), Undefined, StringVal(<<"o", "k">>))}

CommentsValues ==
    {ArrayOf(items) : items \in SeqsUpTo(Entries, MaxComments)}
    \cup {ArrayOf(<<a, b>>) : a \in CoreEntries, b \in CoreEntries}
    \cup {NotArray("undefined"), NotArray("null"), NotArray("number"), NotArray("object"),
          StringOf(<<"h", "i">>)}

InitNorm ==
    /\ pc = "comments"
    /\ impl = "-"
    /\ IdlePatch
    /\ IdleJson
    /\ IdleRun
    /\ IdleBatch
    /\ changedFiles = <<[filename |-> FileA, status |-> "modified"],
                        [filename |-> FileR, status |-> "removed"]>>
    /\ fileContents \in {[f \in {FileA} |-> FileLines(n)] : n \in {1, 4}}
    /\ rawComments \in CommentsValues
    /\ ghComments = [threw |-> FALSE, comments |-> <<>>]

\* submitReview, step 2: this._normalizeComments(comments, fileContents, changedFiles)
GitHubServiceNormalize ==
    /\ pc = "comments"
    /\ pc' = "normalized"
    /\ impl' = "review.js"
    /\ ghComments' = GitHubService_normalizeComments(rawComments, fileContents, changedFiles)
    /\ UNCHANGED <<changedFiles, fileContents, rawComments>>
    /\ UNCHANGED outsideNorm

\* main: parseModelResponse, then normalizeReviewComments(parsed.comments, ...)
Normalize ==
    /\ pc = "comments"
    /\ pc' = "normalized"
    /\ impl' = "part_000"
    /\ ghComments' = normalizeReviewComments(parseModelResponse_comments(rawComments),
                                             fileContents, changedFiles)
    /\ UNCHANGED <<changedFiles, fileContents, rawComments>>
    /\ UNCHANGED outsideNorm

NextNorm == GitHubServiceNormalize \/ Normalize

SpecNorm == InitNorm /\ [][NextNorm]_vars

Le(a, b) == Ge(b, a)

\* C2: every record the normalizer emits for a file whose lines are in the
\* contents map has a path in the changed-file set, an integer line with
\* 1 <= line <= the file's line count, and a start_line, when present, that is
\* <= line and <= the file's line count.
C2_EmittedCommentsAnchored ==
    pc = "normalized" =>
        \A i \in 1..Len(ghComments.comments) :
            LET r == ghComments.comments[i]
            IN  r.path \in DOMAIN fileContents =>
                    LET count == Whole(Len(fileContents[r.path]))
                    IN  /\ r.path \in Filenames(changedFiles)
                        /\ Number_isInteger(r.line)
                        /\ Le(Whole(1), r.line)
                        /\ Le(r.line, count)
                        /\ r.has_start_line =>
                               (Le(r.start_line, r.line) /\ Le(r.start_line, count))

\* An entry that passes the validation rules, for a file whose content is known.
PassesValidation(c) ==
    /\ c.kind = "object"
    /\ SetHas(Filenames(changedFiles), c.filepath)
    /\ MapHas(fileContents, c.filepath)
    /\ Number_isInteger(ToNumber(c.start_line))
    /\ Le(Whole(1), ToNumber(c.start_line))
    /\ Le(ToNumber(c.start_line), Whole(Len(fileContents[c.filepath.s])))

\* C10: the normalizer never throws: whatever the comments field and its
\* entries are, it drops the bad entries and returns the comments that pass
\* validation.
C10_NormalizerNeverThrows ==
    pc = "normalized" =>
        /\ ~ghComments.threw
        /\ Cardinality({i \in 1..Len(ghComments.comments) :
                            ghComments.comments[i].path \in DOMAIN fileContents})
           = Cardinality({i \in 1..Len(rawComments.items) :
                            rawComments.kind = "array" /\ PassesValidation(rawComments.items[i])})

(***************************************************************************)
(* The model's response text, token by token                               *)
(***************************************************************************)
\* A text is a sequence of tokens.  A token is one character, or one of the
\* units the recovery treats as a whole: the fence ```, the tag json, an
\* escape inside a JSON string (\n, \"), a member name, an array literal.
\* (the three backticks are spelled with three quotes in the model's tokens)
Fence == "'''"

Quote == "\""

EscapedNL == "\\n"

EscapedQuote == "\\q"     \* the escape of a quote inside a string

Whitespace == {" ", NL}

Min(S) == CHOOSE x \in S : \A y \in S : x <= y

Max(S) == CHOOSE x \in S : \A y \in S : x >= y

\* String.prototype.trim
trim(s) ==
    LET keep == {i \in 1..Len(s) : s[i] \notin Whitespace}
    IN  IF keep = {} THEN <<>> ELSE SubSeq(s, Min(keep), Max(keep))

\* String.prototype.indexOf and lastIndexOf, counted from 1; 0 when absent
indexOf(s, tok) ==
    LET at == {i \in 1..Len(s) : s[i] = tok}
    IN  IF at = {} THEN 0 ELSE Min(at)

lastIndexOf(s, tok) ==
    LET at == {i \in 1..Len(s) : s[i] = tok}
    IN  IF at = {} THEN 0 ELSE Max(at)

\* the token at position i, "" past the end
TokAt(t, i) == IF i \in 1..Len(t) THEN t[i] ELSE ""

\* \s* from position i: the position of the first token that is no whitespace
SkipWs(t, i) ==
    LET stops == {j \in i..Len(t) : t[j] \notin Whitespace}
    IN  IF stops = {} THEN Len(t) + 1 ELSE Min(stops)

\* /```(?:json)?\s*([\s\S]*?)```/i.exec(raw): the leftmost fence opens, the
\* tag and the whitespace after it are consumed, and the lazy capture ends at
\* the first fence that follows.
FencedBlock(raw) ==
    LET opening == indexOf(raw, Fence)
        afterTag == IF TokAt(raw, opening + 1) \in {"json", "JSON"}
                    THEN opening + 2 ELSE opening + 1
        from     == SkipWs(raw, afterTag)
        closing  == {i \in from..Len(raw) : raw[i] = Fence}
    IN  IF opening = 0 \/ closing = {}
        THEN [matched |-> FALSE, capture |-> <<>>]
        ELSE [matched |-> TRUE, capture |-> SubSeq(raw, from, Min(closing) - 1)]

\* Utils.cleanModelJson, review.js
Utils_cleanModelJson(raw) ==
    IF Len(raw) = 0 THEN <<>>
    ELSE LET fenced     == FencedBlock(raw)
             content    == IF fenced.matched THEN trim(fenced.capture) ELSE trim(raw)
             firstBrace == indexOf(content, "{")
             lastBrace  == lastIndexOf(content, "}")
         IN  IF firstBrace # 0 /\ lastBrace # 0 /\ lastBrace > firstBrace
             THEN SubSeq(content, firstBrace, lastBrace)
             ELSE content

\* cleanModelJson, part_000: throws on an empty text
cleanModelJson(raw) ==
    IF Len(raw) = 0 THEN [threw |-> TRUE, text |-> <<>>]
    ELSE LET fenced     == FencedBlock(raw)
             firstBrace == indexOf(raw, "{")
             lastBrace  == lastIndexOf(raw, "}")
         IN  IF fenced.matched /\ Len(fenced.capture) > 0
             THEN [threw |-> FALSE, text |-> trim(fenced.capture)]
             ELSE IF firstBrace # 0 /\ lastBrace # 0 /\ lastBrace > firstBrace
             THEN [threw |-> FALSE, text |-> SubSeq(raw, firstBrace, lastBrace)]
             ELSE [threw |-> FALSE, text |-> trim(raw)]

(***************************************************************************)
(* JSON.parse and JSON.stringify on objects with string and array members  *)
(***************************************************************************)
CommentOnLine(n) ==
    CommentObject(StringVal(FileA), NumberVal(Whole(n)), Undefined, StringVal(<<"o", "k">>))

\* The array literals a text can hold, each one token, and their values.
ArrayLiterals ==
    ("[]" :> ArrayOf(<<>>))
    @@ ("[{a:1}]" :> ArrayOf(<<CommentOnLine(1)>>))
    @@ ("[{a:9}]" :> ArrayOf(<<CommentOnLine(9)>>))
    @@ ("[null]" :> ArrayOf(<<NullEntry>>))

Escape(ch) ==
    IF ch = NL THEN EscapedNL ELSE IF ch = Quote THEN EscapedQuote ELSE ch

Unescape(tok) ==
    IF tok = EscapedNL THEN NL ELSE IF tok = EscapedQuote THEN Quote ELSE tok

\* A value is an array exactly when it has a kind field.
IsArray(v) == "kind" \in DOMAIN v

JSON_stringifyValue(v) ==
    IF IsArray(v)
    THEN <<CHOOSE tok \in DOMAIN ArrayLiterals : ArrayLiterals[tok] = v>>
    ELSE <<Quote>> \o [i \in 1..Len(v.s) |-> Escape(v.s[i])] \o <<Quote>>

RECURSIVE JSON_stringifyMembers(_)
JSON_stringifyMembers(members) ==
    IF Len(members) = 0 THEN <<>>
    ELSE <<Quote, Head(members).key, Quote, ":">>
         \o JSON_stringifyValue(Head(members).value)
         \o (IF Len(members) > 1 THEN <<",">> ELSE <<>>)
         \o JSON_stringifyMembers(Tail(members))

\* JSON.stringify of an object, its members in insertion order
JSON_stringify(members) == <<"{">> \o JSON_stringifyMembers(members) \o <<"}">>

\* The object as a map from member names to values
RECURSIVE ToObject(_)
ToObject(members) ==
    IF Len(members) = 0 THEN <<>>
    ELSE LET last == members[Len(members)]
         IN  (<<last.key>> :> last.value) @@ ToObject(SubSeq(members, 1, Len(members) - 1))

NoParse == [ok |-> FALSE, isObject |-> FALSE, value |-> <<>>, next |-> 0]

\* A string literal at position i: no raw newline inside, escapes undone
ParseString(t, i) ==
    LET ends == {j \in (i + 1)..Len(t) : t[j] = Quote}
    IN  IF TokAt(t, i) # Quote \/ ends = {} THEN NoParse
        ELSE LET raw == SubSeq(t, i + 1, Min(ends) - 1)
             IN  IF \E k \in 1..Len(raw) : raw[k] = NL THEN NoParse
                 ELSE [ok |-> TRUE, isObject |-> FALSE,
                       value |-> [k \in 1..Len(raw) |-> Unescape(raw[k])],
                       next |-> Min(ends) + 1]

\* A member value at position i: a string or an array literal
ParseValue(t, i) ==
    IF TokAt(t, i) \in DOMAIN ArrayLiterals
    THEN [ok |-> TRUE, isObject |-> FALSE, value |-> ArrayLiterals[t[i]], next |-> i + 1]
    ELSE LET str == ParseString(t, i)
         IN  IF str.ok THEN [str EXCEPT !.value = StringVal(str.value)] ELSE NoParse

\* The members of an object from position i, up to and including "}"
RECURSIVE ParseMembers(_, _, _)
ParseMembers(t, i, obj) ==
    LET name == ParseString(t, i)
    IN  IF ~name.ok THEN NoParse
        ELSE LET colon == SkipWs(t, name.next)
             IN  IF TokAt(t, colon) # ":" THEN NoParse
                 ELSE LET val == ParseValue(t, SkipWs(t, colon + 1))
                      IN  IF ~val.ok THEN NoParse
                          ELSE LET after == SkipWs(t, val.next)
                                   more  == (name.value :> val.value) @@ obj
                               IN  IF TokAt(t, after) = ","
                                   THEN ParseMembers(t, SkipWs(t, after + 1), more)
                                   ELSE IF TokAt(t, after) = "}"
                                   THEN [ok |-> TRUE, isObject |-> TRUE,
                                         value |-> more, next |-> after + 1]
                                   ELSE NoParse

\* JSON.parse(text): an object, or a string or an array on its own; nothing
\* but whitespace may surround the value.
JSON_parse(t) ==
    LET start == SkipWs(t, 1)
        inner == SkipWs(t, start + 1)
        parsed ==
            IF TokAt(t, start) # "{" THEN ParseValue(t, start)
            ELSE IF TokAt(t, inner) = "}"
            THEN [ok |-> TRUE, isObject |-> TRUE, value |-> <<>>, next |-> inner + 1]
            ELSE ParseMembers(t, inner, <<>>)
    IN  IF parsed.ok /\ SkipWs(t, parsed.next) = Len(t) + 1 THEN parsed ELSE NoParse

\* What a recovery returns: it threw, or it returned a value (an object with
\* its members, or a value that is no object and has no members).
Threw == [threw |-> TRUE, isObject |-> FALSE, value |-> <<>>]

Returned(parsed) == [threw |-> FALSE, isObject |-> parsed.isObject, value |-> parsed.value]

\* JSON.parse(jsonrepair(text)), the outcomes it can have.  jsonrepair is a
\* library: on a text without a value it throws; on any other text it may
\* throw, or yield a value that is no object, or yield the text closed by the
\* missing quote and brace.
jsonrepair(text) ==
    LET closed == {JSON_parse(text \o rest) : rest \in {<<Quote>>, <<"}">>, <<Quote, "}">>}}
    IN  IF Len(trim(text)) = 0 THEN {Threw}
        ELSE {Threw, Returned(NoParse)} \cup {Returned(p) : p \in {q \in closed : q.ok}}

\* Utils.safeParseJson, review.js; repaired is what JSON.parse(jsonrepair(cleaned)) does
Utils_safeParseJson(raw, repaired) ==
    LET parsed == JSON_parse(Utils_cleanModelJson(raw))
    IN  IF parsed.ok THEN Returned(parsed) ELSE repaired

\* safeParseModelJson, part_000
safeParseModelJson(raw, repaired) ==
    LET cleaned == cleanModelJson(raw)
        parsed  == JSON_parse(cleaned.text)
    IN  IF cleaned.threw THEN Threw
        ELSE IF parsed.ok THEN Returned(parsed) ELSE repaired

(***************************************************************************)
(* The recovery of an object the model serialized in a fenced block        *)
(***************************************************************************)
MaxStringLen == 2

StringChars == {"a", " ", "{", "}", NL, Fence}

Member(key, chars) == [key |-> key, value |-> StringVal(chars)]

Originals ==
    {<<>>}
    \cup {<<Member("general_comment", s)>> : s \in SeqsUpTo(StringChars, MaxStringLen)}
    \cup {<<Member("conclusion", <<"APPROVE">>),
            Member("general_comment", s)>> : s \in SeqsUpTo(StringChars, MaxStringLen)}

\* Prose around the block: none, a sentence, a sentence with braces.
Proses == {<<>>, <<"a", NL>>, <<" ", "{", "a", "}", " ">>}

Fenced(text) ==
    {before \o <<Fence>> \o tag \o gap \o text \o gap \o <<Fence>> \o after :
        before \in Proses, tag \in {<<>>, <<"json">>}, gap \in {<<>>, <<NL>>}, after \in Proses}

IdleRecovery == [threw |-> FALSE, isObject |-> FALSE, value |-> <<>>]

InitJson ==
    /\ pc = "response"
    /\ impl = "-"
    /\ IdlePatch
    /\ IdleNorm
    /\ IdleRun
    /\ IdleBatch
    /\ original \in Originals
    /\ responseText \in Fenced(JSON_stringify(original))
    /\ recovered = IdleRecovery

\* main: Utils.safeParseJson(responseText)
UtilsSafeParseJson ==
    /\ pc = "response"
    /\ pc' = "recovered"
    /\ impl' = "review.js"
    /\ \E repaired \in jsonrepair(Utils_cleanModelJson(responseText)) :
           recovered' = Utils_safeParseJson(responseText, repaired)
    /\ UNCHANGED <<original, responseText>>
    /\ UNCHANGED outsideJson

\* parseModelResponse: safeParseModelJson(rawJson)
SafeParseModelJson ==
    /\ pc = "response"
    /\ pc' = "recovered"
    /\ impl' = "part_000"
    /\ \E repaired \in jsonrepair(cleanModelJson(responseText).text) :
           recovered' = safeParseModelJson(responseText, repaired)
    /\ UNCHANGED <<original, responseText>>
    /\ UNCHANGED outsideJson

NextJson == UtilsSafeParseJson \/ SafeParseModelJson

SpecJson == InitJson /\ [][NextJson]_vars

\* C7: an object that is serialized, wrapped in a fenced block (tagged json
\* or not) and surrounded by prose comes back from the recovery as an object
\* deep-equal to the original.
C7_FencedObjectRoundTrips ==
    pc = "recovered" =>
        /\ ~recovered.threw
        /\ recovered.isObject
        /\ recovered.value = ToObject(original)

(***************************************************************************)
(* The recovered review and its members                                    *)
(***************************************************************************)
ObjectVal == [t |-> "object", n |-> NaN, s |-> <<>>]

\* reviewData.key: undefined when absent, or when reviewData is no object
Prop(r, key) ==
    IF r.isObject /\ <<key>> \in DOMAIN r.value THEN r.value[<<key>>] ELSE Undefined

\* a member as a scalar: an array is an object, truthy and equal to no string
Scalar(v) == IF IsArray(v) THEN ObjectVal ELSE v

\* a member as the comments: an array, a string, or something not iterable
CommentsOf(v) ==
    IF IsArray(v) THEN v
    ELSE IF v.t = "string" THEN StringOf(v.s)
    ELSE NotArray(v.t)

\* `${v}`
NumStr(n) ==
    IF n.nan THEN <<"NaN">>
    ELSE IF n.h % 2 = 0 THEN ToDec(n.h \div 2)
    ELSE ToDec(n.h \div 2) \o <<".", "5">>

Str(v) ==
    CASE v.t = "undefined" -> <<"undefined">>
      [] v.t = "null"      -> <<"null">>
      [] v.t = "number"    -> NumStr(v.n)
      [] v.t = "string"    -> v.s
      [] OTHER             -> <<"[object Object]">>

\* A call of the GitHub API: pulls.createReview or issues.createComment
\* A call that always goes to issues.createComment.
Call_alwaysComment(api, ev, text, comments) ==
    [api |-> "createComment", event |-> ev, body |-> text, comments |-> comments]

Call(api, ev, text, comments) ==
    [api |-> api, event |-> ev, body |-> text, comments |-> comments]

(***************************************************************************)
(* review.js: the event, and the text of the fallback comment              *)
(***************************************************************************)
\* submitReview, step 1
GitHubService_event(conclusion, who, author) ==
    IF who = author THEN "COMMENT"
    ELSE IF conclusion = StringVal(<<"REQUEST_CHANGES">>) THEN "REQUEST_CHANGES"
    ELSE "APPROVE"

\* Utils.formatFallbackMarkdown: [threw, text]; comments.forEach is no
\* function when comments is a string
Utils_formatFallbackMarkdown(conclusion, general, comments) ==
    LET head    == <<<<"**Review Result:** ">> \o Str(conclusion)>>
        summary == IF Truthy(general)
                   THEN <<<<NL, "**Overview:** ">> \o Str(general)>> ELSE <<>>
        inline  == IF Len(comments.items) > 0
                   THEN <<<<NL, "**Inline Comments:**">>>>
                        \o [i \in 1..Len(comments.items) |->
                               LET c == comments.items[i]
                               IN  <<"- ">> \o Str(c.filepath) \o <<":">>
                                   \o Str(c.start_line) \o <<" ">> \o Str(c.comment)]
                   ELSE <<>>
    IN  IF comments.kind = "string" /\ Len(comments.items) > 0
        THEN [threw |-> TRUE, text |-> <<>>]
        ELSE [threw |-> FALSE, text |-> join(head \o summary \o inline)]

NoSummary == <<"Automated Review (No summary provided)">>

GitHubService_emptyReview_never(general_comment, ghc) == FALSE

\* submitReview, step 3: !general_comment && ghComments.length === 0
GitHubService_emptyReview(general_comment, ghc) ==
    ~Truthy(general_comment) /\ Len(ghc) = 0

(***************************************************************************)
(* part_000: parseModelResponse, the event, formatMarkdownReview           *)
(***************************************************************************)
parseModelResponse(r) ==
    [conclusion |-> IF Scalar(Prop(r, "conclusion")) = StringVal(<<"REQUEST_CHANGES">>)
                    THEN "REQUEST_CHANGES" ELSE "APPROVE",
     general    |-> IF Scalar(Prop(r, "general_comment")).t = "string"
                    THEN Prop(r, "general_comment").s ELSE <<>>,
     comments   |-> parseModelResponse_comments(CommentsOf(Prop(r, "comments")))]

finalEvent_keepsVerdict(conclusion, who, author) == conclusion

\* main: event, selfReview, finalEvent
finalEvent(conclusion, who, author) ==
    IF Truthy(who) /\ Truthy(author) /\ who = author THEN "COMMENT"
    ELSE IF conclusion = "REQUEST_CHANGES" THEN "REQUEST_CHANGES"
    ELSE "APPROVE"

\* One line of the list of comments (the labels, Cyrillic in the source, are
\* written in Latin letters).
formatMarkdownComment(c) ==
    LET file  == IF Truthy(c.filepath) THEN Str(c.filepath) ELSE <<"ne ukazan fajl">>
        start == IF c.start_line.t \in {"undefined", "null"} THEN <<"?">>
                 ELSE Str(c.start_line)
        end   == IF Truthy(c.end_line) /\ c.end_line # c.start_line
                 THEN <<"-">> \o Str(c.end_line) ELSE <<>>
        text  == IF Truthy(c.comment) THEN Str(c.comment) ELSE <<>>
    IN  <<"- ">> \o file \o <<":">> \o start \o end \o <<" -- ">> \o text

\* formatMarkdownReview(rawJson); r is what safeParseModelJson(rawJson) does.
\* Whatever is thrown inside (the parse, c.filepath of a null entry) makes it
\* return rawJson.
formatMarkdownReview(rawJson, r) ==
    LET conclusion == IF Truthy(Scalar(Prop(r, "conclusion")))
                      THEN Str(Scalar(Prop(r, "conclusion"))) ELSE <<"APPROVE">>
        general    == Scalar(Prop(r, "general_comment"))
        comments   == parseModelResponse_comments(CommentsOf(Prop(r, "comments")))
        head       == <<<<"**Itog:** ">> \o conclusion>>
        summary    == IF Truthy(general)
                      THEN <<<<"**Obshchee vpechatlenie:** ">> \o Str(general)>> ELSE <<>>
        list       == IF Len(comments) > 0
                      THEN <<<<>>, <<"**Zamechaniya:**">>>>
                           \o [i \in 1..Len(comments) |-> formatMarkdownComment(comments[i])]
                      ELSE <<>>
    IN  IF r.threw \/ \E i \in 1..Len(comments) : comments[i].kind = "null"
        THEN rawJson
        ELSE join(head \o summary \o list)

NoReview == <<"Gemini did not return a review. Please rerun the workflow.">>

(***************************************************************************)
(* A run of main, from the model's answer on                               *)
(***************************************************************************)
Conclusions ==
    {<<>>} \cup {<<Member("conclusion", <<c>>)>> :
                    c \in {"REQUEST_CHANGES", "APPROVE", "request_changes"}}

Generals ==
    {<<>>, <<Member("general_comment", <<>>)>>, <<Member("general_comment", <<"fine">>)>>}

CommentsMembers ==
    {<<>>} \cup {<<[key |-> "comments", value |-> ArrayLiterals[tok]]>> :
                    tok \in DOMAIN ArrayLiterals}
           \cup {<<Member("comments", <<"n", "o">>)>>}

Reviews == {c \o g \o m : c \in Conclusions, g \in Generals, m \in CommentsMembers}

\* What the model answers: a review, bare or in a fenced block after a
\* sentence; a review cut off before its last quote and brace; nothing; blank
\* space; a sentence; braces around a colon.
ResponseTexts ==
    {JSON_stringify(r) : r \in Reviews}
    \cup {<<"a", NL, Fence, "json", NL>> \o JSON_stringify(r) \o <<NL, Fence>> : r \in Reviews}
    \cup {SubSeq(JSON_stringify(<<Member("general_comment", <<"fine">>)>>), 1, 7)}
    \cup {<<>>, <<" ", NL>>, <<"a">>, <<"{", ":", "}">>}

Logins == {StringVal(<<"alice">>), StringVal(<<"bob">>), Undefined}

InitRun ==
    /\ pc = "generated"
    /\ impl = "-"
    /\ IdlePatch
    /\ IdleBatch
    /\ original = <<>>
    /\ responseText \in ResponseTexts
    /\ recovered = IdleRecovery
    /\ changedFiles = <<[filename |-> FileA, status |-> "modified"],
                        [filename |-> FileR, status |-> "removed"]>>
    /\ fileContents = [f \in {FileA} |-> FileLines(4)]
    /\ rawComments = NotArray("undefined")
    /\ ghComments = [threw |-> FALSE, comments |-> <<>>]
    /\ actor \in Logins
    /\ prAuthor \in Logins \ {StringVal(<<"bob">>)}
    /\ event = ""
    /\ calls = <<>>
    /\ outcome = "running"

\* review.js, main: Utils.safeParseJson(responseText); what it throws goes to
\* main().catch, which ends the process with code 1.
MainSafeParseJson ==
    /\ pc = "generated"
    /\ impl' = "review.js"
    /\ \E repaired \in jsonrepair(Utils_cleanModelJson(responseText)) :
           recovered' = Utils_safeParseJson(responseText, repaired)
    /\ IF recovered'.threw
       THEN pc' = "exit" /\ outcome' = "failed"
       ELSE pc' = "submit" /\ outcome' = outcome
    /\ UNCHANGED <<responseText, changedFiles, fileContents, rawComments, ghComments,
                   actor, prAuthor, event, calls>>
    /\ UNCHANGED outsideRun

\* review.js, submitReview up to the call of pulls.createReview
SubmitReview ==
    /\ pc = "submit"
    /\ impl = "review.js"
    /\ LET conclusion      == Scalar(Prop(recovered, "conclusion"))
           general_comment == Scalar(Prop(recovered, "general_comment"))
           comments        == CommentsOf(Prop(recovered, "comments"))
           ev              == GitHubService_event(conclusion, actor, prAuthor)
           normalized      == GitHubService_normalizeComments(comments, fileContents,
                                                              changedFiles)
       IN  /\ event' = ev
           /\ rawComments' = comments
           /\ ghComments' = normalized
           /\ IF normalized.threw
              THEN pc' = "exit" /\ outcome' = "failed" /\ calls' = calls
              ELSE IF GitHubService_emptyReview(general_comment, normalized.comments)
              THEN pc' = "exit" /\ outcome' = "finished" /\ calls' = calls
              ELSE /\ pc' = "createReview"
                   /\ outcome' = outcome
                   /\ calls' = Append(calls,
                          Call("createReview", ev,
                               IF Truthy(general_comment) THEN Str(general_comment)
                               ELSE NoSummary,
                               normalized.comments))
    /\ UNCHANGED <<impl, responseText, recovered, changedFiles, fileContents,
                   actor, prAuthor>>
    /\ UNCHANGED outsideRun

\* review.js, submitReview: pulls.createReview is rejected; the catch block
\* formats the review and calls issues.createComment.
SubmitReviewFallback ==
    /\ pc = "createReview"
    /\ impl = "review.js"
    /\ LET fallbackBody == Utils_formatFallbackMarkdown(
                               Scalar(Prop(recovered, "conclusion")),
                               Scalar(Prop(recovered, "general_comment")),
                               rawComments)
       IN  IF fallbackBody.threw
           THEN pc' = "exit" /\ outcome' = "failed" /\ calls' = calls
           ELSE /\ pc' = "createComment"
                /\ outcome' = outcome
                /\ calls' = Append(calls, Call("createComment", "", fallbackBody.text, <<>>))
    /\ UNCHANGED <<impl, responseText, recovered, changedFiles, fileContents, rawComments,
                   ghComments, actor, prAuthor, event>>
    /\ UNCHANGED outsideRun

\* part_000, main: the answer is checked, then parseModelResponse; what it
\* throws is caught, and formatMarkdownReview(reviewJson) is posted.
MainParseModelResponse ==
    /\ pc = "generated"
    /\ impl' = "part_000"
    /\ IF Len(trim(responseText)) = 0
       THEN /\ recovered' = recovered
            /\ pc' = "createComment"
            /\ calls' = Append(calls, Call("createComment", "", NoReview, <<>>))
       ELSE /\ \E repaired \in jsonrepair(cleanModelJson(responseText).text) :
                   recovered' = safeParseModelJson(responseText, repaired)
            /\ IF recovered'.threw
               THEN /\ pc' = "createComment"
                    /\ calls' = Append(calls,
                           Call("createComment", "",
                                formatMarkdownReview(responseText, recovered'), <<>>))
               ELSE pc' = "submit" /\ calls' = calls
    /\ UNCHANGED <<responseText, changedFiles, fileContents, rawComments, ghComments,
                   actor, prAuthor, event, outcome>>
    /\ UNCHANGED outsideRun

\* part_000, main: from normalizeReviewComments to the call of pulls.createReview
MainCreateReview ==
    /\ pc = "submit"
    /\ impl = "part_000"
    /\ LET parsed         == parseModelResponse(recovered)
           reviewComments == normalizeReviewComments(parsed.comments, fileContents,
                                                     changedFiles)
           ev             == finalEvent(parsed.conclusion, actor, prAuthor)
       IN  /\ event' = ev
           /\ rawComments' = ArrayOf(parsed.comments)
           /\ ghComments' = reviewComments
           /\ IF Len(parsed.general) = 0 /\ Len(reviewComments.comments) = 0
              THEN pc' = "exit" /\ outcome' = "finished" /\ calls' = calls
              ELSE /\ pc' = "createReview"
                   /\ outcome' = outcome
                   /\ calls' = Append(calls,
                          Call("createReview", ev, parsed.general, reviewComments.comments))
    /\ UNCHANGED <<impl, responseText, recovered, changedFiles, fileContents,
                   actor, prAuthor>>
    /\ UNCHANGED outsideRun

\* part_000, main: pulls.createReview is rejected; the catch block posts
\* formatMarkdownReview(reviewJson).
MainPostFallback ==
    /\ pc = "createReview"
    /\ impl = "part_000"
    /\ pc' = "createComment"
    /\ calls' = Append(calls,
           Call("createComment", "", formatMarkdownReview(responseText, recovered), <<>>))
    /\ UNCHANGED <<impl, responseText, recovered, changedFiles, fileContents, rawComments,
                   ghComments, actor, prAuthor, event, outcome>>
    /\ UNCHANGED outsideRun

\* pulls.createReview is accepted: main returns.
CreateReviewAccepted ==
    /\ pc = "createReview"
    /\ pc' = "exit"
    /\ outcome' = "finished"
    /\ UNCHANGED <<impl, responseText, recovered, changedFiles, fileContents, rawComments,
                   ghComments, actor, prAuthor, event, calls>>
    /\ UNCHANGED outsideRun

\* issues.createComment is accepted: main returns.
CreateCommentAccepted ==
    /\ pc = "createComment"
    /\ pc' = "exit"
    /\ outcome' = "finished"
    /\ UNCHANGED <<impl, responseText, recovered, changedFiles, fileContents, rawComments,
                   ghComments, actor, prAuthor, event, calls>>
    /\ UNCHANGED outsideRun

\* issues.createComment is rejected: nothing catches it, main().catch ends the
\* process with code 1.
CreateCommentRejected ==
    /\ pc = "createComment"
    /\ pc' = "exit"
    /\ outcome' = "failed"
    /\ UNCHANGED <<impl, responseText, recovered, changedFiles, fileContents, rawComments,
                   ghComments, actor, prAuthor, event, calls>>
    /\ UNCHANGED outsideRun

NextRun ==
    \/ MainSafeParseJson
    \/ SubmitReview
    \/ SubmitReviewFallback
    \/ MainParseModelResponse
    \/ MainCreateReview
    \/ MainPostFallback
    \/ CreateReviewAccepted
    \/ CreateCommentAccepted
    \/ CreateCommentRejected

SpecRun == InitRun /\ [][NextRun]_vars

\* The recovery has run and thrown: the text survived neither parse.
Unparseable == pc # "generated" /\ recovered.threw

\* C8: when the model's text survives neither the strict parse nor the
\* repairing parse, the run does not abort: what main does next is to post the
\* raw text as a plain comment.
C8_UnparseableFallsBackToRawText ==
    Unparseable =>
        /\ Len(calls) = 1
        /\ calls[1].api = "createComment"
        /\ calls[1].body = responseText

\* The conclusion rule of the final event
Verdict(conclusion) ==
    IF conclusion = StringVal(<<"REQUEST_CHANGES">>) THEN "REQUEST_CHANGES" ELSE "APPROVE"

\* The event of the review the run has submitted, if any
Submitted(ev) == \E i \in 1..Len(calls) : calls[i].api = "createReview" /\ calls[i].event = ev

HasSubmitted == \E i \in 1..Len(calls) : calls[i].api = "createReview"

Shaped == event # ""

\* The recovered review has no general comment, and the normalizer has
\* returned no comment.
NothingToSubmit ==
    /\ Shaped
    /\ ~Truthy(Scalar(Prop(recovered, "general_comment")))
    /\ ~ghComments.threw
    /\ Len(ghComments.comments) = 0

\* C11: when the recovered review has no general comment and normalization
\* yields no validated comment, the run submits nothing: it calls neither
\* pulls.createReview nor issues.createComment, and it ends without failure.
C11_EmptyReviewSubmitsNothing ==
    NothingToSubmit => (calls = <<>> /\ pc = "exit" /\ outcome = "finished")

\* An empty review whose only proposed comment was dropped by the normalizer
C11_Witness ==
    /\ NothingToSubmit
    /\ impl = "review.js"
    /\ rawComments = ArrayOf(<<CommentOnLine(9)>>)
    /\ calls = <<>>
    /\ outcome = "finished"

\* sub occurs in text, token after token
Contains(text, sub) ==
    \E i \in 0..(Len(text) - Len(sub)) : SubSeq(text, i + 1, i + Len(sub)) = sub

\* pulls.createReview was called and rejected, and the handler of the
\* rejection has run.
ReviewRejected ==
    /\ HasSubmitted
    /\ pc # "createReview"
    /\ ~(Len(calls) = 1 /\ outcome = "finished")

\* The text holds what the model said: its conclusion and its general comment
\* when it gave them, and the text of each of its comments.
HoldsReview(text) ==
    LET conclusion == Scalar(Prop(recovered, "conclusion"))
        general    == Scalar(Prop(recovered, "general_comment"))
        comments   == CommentsOf(Prop(recovered, "comments"))
    IN  /\ Truthy(conclusion) => Contains(text, Str(conclusion))
        /\ Truthy(general) => Contains(text, Str(general))
        /\ \A i \in 1..Len(comments.items) :
               Truthy(comments.items[i].comment)
                   => Contains(text, Str(comments.items[i].comment))

\* C12: whenever pulls.createReview is rejected, the run then posts exactly
\* one issue comment, which holds the verdict, the summary and all of the
\* model's comments; the rejection itself does not make the run fail.
C12_RejectedReviewFallsBackToOneComment ==
    ReviewRejected =>
        /\ Len(calls) = 2
        /\ calls[2].api = "createComment"
        /\ HoldsReview(calls[2].body)

\* C18: every set parsePatchLineNumbers returns, whatever the patch text
\* (empty, without a header, with a hunk of length zero), has only integers
\* >= 1 as members.
C18_ParsedLinesArePositive ==
    pc # "patch" => \A i \in 1..Len(included) : included[i] >= 1

\* The entries that pass the path and start_line checks, and the records
\* emitted for files whose content is known, both in order.
PassingEntries ==
    IF rawComments.kind = "array" THEN SelectSeq(rawComments.items, PassesValidation)
    ELSE <<>>

HasKnownFile(r) == r.path \in DOMAIN fileContents

EmittedRecords == SelectSeq(ghComments.comments, HasKnownFile)

\* The record r has the shape the entry c asks for.
ShapedAs(c, r) ==
    LET start == ToNumber(c.start_line)
        end   == ToNumber(c.end_line)
        count == Whole(Len(fileContents[c.filepath.s]))
    IN  IF c.end_line.t \notin {"undefined", "null"} /\ Gt(end, start)
        THEN r.line = Math_min(end, count) /\ r.has_start_line /\ r.start_line = start
        ELSE r.line = start /\ ~r.has_start_line

\* C17: for a raw comment that passes the path and start_line checks, an
\* end_line that is present and greater than start_line gives a record with
\* line = min(end_line, line count) and start_line = the original start; an
\* end_line that is absent or <= start_line gives line = start_line and no
\* start_line field.
C17_RangeAndAnchorShaping ==
    (pc = "normalized" /\ ~ghComments.threw) =>
        /\ Len(EmittedRecords) = Len(PassingEntries)
        /\ \A k \in 1..Len(PassingEntries) : ShapedAs(PassingEntries[k], EmittedRecords[k])

\* C19: every record the normalizer emits has a string body: the raw comment
\* text when there is one, the empty string when the comment field is absent.
C19_BodyIsAString ==
    (pc = "normalized" /\ ~ghComments.threw) =>
        /\ Len(EmittedRecords) = Len(PassingEntries)
        /\ \A k \in 1..Len(PassingEntries) :
               EmittedRecords[k].body =
                   IF PassingEntries[k].comment.t = "undefined" THEN StringVal(<<>>)
                   ELSE PassingEntries[k].comment

(***************************************************************************)
(* The contents Map and the fetch of one file                              *)
(***************************************************************************)
\* Map.prototype.get: the lines, or undefined (has = FALSE)
MapGet(entries, key) ==
    LET at == {i \in 1..Len(entries) : entries[i].key = key}
    IN  IF at = {} THEN [has |-> FALSE, lines |-> <<>>]
        ELSE [has |-> TRUE, lines |-> entries[Min(at)].value]

\* A Map that forgets its entries at each set.
MapSet_keepsLast(entries, key, value) == <<[key |-> key, value |-> value]>>

\* Map.prototype.set: a known key keeps its place, a new key goes last
MapSet(entries, key, value) ==
    IF \E i \in 1..Len(entries) : entries[i].key = key
    THEN [i \in 1..Len(entries) |->
             IF entries[i].key = key THEN [key |-> key, value |-> value] ELSE entries[i]]
    ELSE Append(entries, [key |-> key, value |-> value])

\* The key-to-lines binding of a Map
Binding(entries) ==
    [k \in {entries[i].key : i \in 1..Len(entries)} |-> MapGet(entries, k).lines]

\* GitHubService.fetchFileContent, review.js: "" when getContent fails
GitHubService_fetchFileContent(answer) == IF answer.ok THEN answer.content ELSE <<>>

\* fetchFileContent, part_000: throws when getContent fails
fetchFileContent(answer) ==
    IF answer.ok THEN [threw |-> FALSE, text |-> answer.content]
    ELSE [threw |-> TRUE, text |-> <<>>]

\* fetchChangedFileContents, part_000: one file after the other; the first
\* failure ends the loop
RECURSIVE fetchChangedFileContents(_, _, _)
fetchChangedFileContents(map, files, answers) ==
    IF Len(files) = 0 THEN [threw |-> FALSE, map |-> map]
    ELSE LET file    == Head(files)
             content == fetchFileContent(answers[file.filename])
         IN  IF file.status = "removed"
             THEN fetchChangedFileContents(map, Tail(files), answers)
             ELSE IF content.threw THEN [threw |-> TRUE, map |-> map]
             ELSE fetchChangedFileContents(
                      MapSet(map, file.filename, split(content.text)), Tail(files), answers)

(***************************************************************************)
(* buildSnippets, review.js, and buildFileSnippets, part_000               *)
(***************************************************************************)
RECURSIVE joinWith(_, _)
joinWith(ls, sep) ==
    IF Len(ls) = 0 THEN <<>>
    ELSE IF Len(ls) = 1 THEN ls[1]
    ELSE ls[1] \o sep \o joinWith(Tail(ls), sep)

\* sortedLines.map(num => `${num}: ${lines[num - 1] || ""}`).join("\n")
codeBlock(sorted, lines) ==
    join([k \in 1..Len(sorted) |->
             ToDec(sorted[k]) \o <<": ">>
             \o (IF sorted[k] \in 1..Len(lines) THEN lines[sorted[k]] ELSE <<>>)])

\* `File: ${file.filename}\n${codeBlock}`
Block(filename, sorted, lines) ==
    [file |-> filename, text |-> <<"File: ">> \o filename \o <<NL>> \o codeBlock(sorted, lines)]

\* One iteration of the loop of buildSnippets: the snippets after it
FileManager_buildOne(acc, file, map, answers) ==
    LET validLines == FileManager_parsePatchLineNumbers(file.patch)
        known      == MapGet(map, file.filename)
        lines      == IF known.has THEN known.lines
                      ELSE split(GitHubService_fetchFileContent(answers[file.filename]))
        sorted     == FileManager_sortedLines(FileManager_linesWithContext(validLines, Len(lines)))
    IN  IF ~file.patch.has \/ Len(file.patch.text) = 0 \/ file.status = "removed" THEN acc
        ELSE IF Len(validLines) = 0 THEN acc
        ELSE Append(acc, Block(file.filename, sorted, lines))

RECURSIVE FileManager_buildLoop(_, _, _, _)
FileManager_buildLoop(acc, files, map, answers) ==
    IF Len(files) = 0 THEN acc
    ELSE FileManager_buildLoop(FileManager_buildOne(acc, Head(files), map, answers),
                               Tail(files), map, answers)

NoParseableChanges == <<"No parseable changes found.">>

BlockTexts(blocks) == [i \in 1..Len(blocks) |-> blocks[i].text]

FileManager_snippetsText_noPlaceholder(blocks) == joinWith(BlockTexts(blocks), <<NL, NL>>)

\* snippets.join("\n\n") || "No parseable changes found."
FileManager_snippetsText(blocks) ==
    IF Len(joinWith(BlockTexts(blocks), <<NL, NL>>)) > 0
    THEN joinWith(BlockTexts(blocks), <<NL, NL>>)
    ELSE NoParseableChanges

\* FileManager.buildSnippets
FileManager_buildSnippets(files, map, answers) ==
    LET blocks == FileManager_buildLoop(<<>>, files, map, answers)
    IN  [threw |-> FALSE, blocks |-> blocks, text |-> FileManager_snippetsText(blocks)]

\* One iteration of the loop of buildFileSnippets: [threw, blocks]
buildOne(acc, file, map, answers) ==
    LET lineNumbers == parsePatchLineNumbers(file.patch)
        known       == MapGet(map, file.filename)
        fetched     == fetchFileContent(answers[file.filename])
        lines       == IF known.has THEN known.lines ELSE split(fetched.text)
        sorted      == sortAndCap(addContextLines(lineNumbers, Len(lines)))
    IN  IF ~file.patch.has \/ Len(file.patch.text) = 0 THEN [threw |-> FALSE, blocks |-> acc]
        ELSE IF Len(lineNumbers) = 0 THEN [threw |-> FALSE, blocks |-> acc]
        ELSE IF ~known.has /\ fetched.threw THEN [threw |-> TRUE, blocks |-> acc]
        ELSE [threw |-> FALSE, blocks |-> Append(acc, Block(file.filename, sorted, lines))]

RECURSIVE buildLoop(_, _, _, _)
buildLoop(acc, files, map, answers) ==
    IF Len(files) = 0 THEN [threw |-> FALSE, blocks |-> acc]
    ELSE LET one == buildOne(acc, Head(files), map, answers)
         IN  IF one.threw THEN one
             ELSE buildLoop(one.blocks, Tail(files), map, answers)

\* "Patch data ..., changed files: " (the label, Cyrillic in the source, is
\* written in Latin letters)
PatchDataUnavailable == <<"Patch data nedostupna, izmenennye fajly: ">>

\* buildFileSnippets
buildFileSnippets(files, map, answers) ==
    LET built == buildLoop(<<>>, files, map, answers)
    IN  IF built.threw THEN [threw |-> TRUE, blocks |-> <<>>, text |-> <<>>]
        ELSE IF Len(built.blocks) = 0
        THEN [threw |-> FALSE, blocks |-> <<>>,
              text |-> PatchDataUnavailable
                       \o joinWith([i \in 1..Len(files) |-> files[i].filename], <<",", " ">>)]
        ELSE [threw |-> FALSE, blocks |-> built.blocks,
              text |-> joinWith(BlockTexts(built.blocks), <<NL, NL>>)]

(***************************************************************************)
(* The changed files of a pull request: contents, snippets, comments       *)
(***************************************************************************)
MaxFiles == 2

FileNames == <<<<"a">>, <<"b">>, <<"c">>, <<"d">>>>

PatchOf(d) == [has |-> TRUE, text |-> RenderPatch(d)]

\* A well-formed patch, a patch whose first line is a content line, no patch
\* (a binary file), and the patch of a removed file.
GoodDiff == <<Hunk(1, 3, 1, 4, FALSE), Content("ctx", <<"p">>), Content("add", <<"q">>)>>

HeaderlessDiff == <<Content("add", <<"q">>), Content("ctx", <<"r">>)>>

RemovedDiff == <<Hunk(1, 2, 0, 0, FALSE), Content("del", <<"p">>), Content("del", <<"q">>)>>

FileShapes ==
    {[status |-> "modified", patch |-> PatchOf(GoodDiff)],
     [status |-> "modified", patch |-> PatchOf(HeaderlessDiff)],
     [status |-> "modified", patch |-> [has |-> FALSE, text |-> <<>>]],
     [status |-> "removed", patch |-> PatchOf(RemovedDiff)]}

ChangedFile(i, shape) ==
    [filename |-> FileNames[i], status |-> shape.status, patch |-> shape.patch]

ChangedFileLists ==
    UNION {{[i \in 1..n |-> ChangedFile(i, shapes[i])] : shapes \in [1..n -> FileShapes]} :
              n \in 0..MaxFiles}

\* repos.getContent: the file's text (four lines), or a failure
Answers ==
    {[ok |-> TRUE, content |-> <<"p", NL, "q", NL, "r", NL, "s">>],
     [ok |-> FALSE, content |-> <<>>]}

CommentOn(filename, n) ==
    CommentObject(StringVal(filename), NumberVal(Whole(n)), Undefined, StringVal(<<"o", "k">>))

BatchComments ==
    {ArrayOf(<<>>),
     ArrayOf(<<CommentOn(FileNames[1], 3)>>),
     ArrayOf(<<CommentOn(FileNames[1], 3), CommentOn(FileNames[2], 1)>>)}

InitBatch ==
    /\ pc = "files"
    /\ impl = "-"
    /\ IdlePatch
    /\ IdleJson
    /\ actor = Undefined
    /\ prAuthor = Undefined
    /\ event = ""
    /\ calls = <<>>
    /\ outcome = "running"
    /\ changedFiles \in ChangedFileLists
    /\ remote \in [{changedFiles[i].filename : i \in 1..Len(changedFiles)} -> Answers]
    /\ rawComments \in BatchComments
    /\ fileContents = <<>>
    /\ ghComments = [threw |-> FALSE, comments |-> <<>>]
    /\ pending = {}
    /\ contentsMap = <<>>
    /\ snippets = [threw |-> FALSE, blocks |-> <<>>, text |-> <<>>]

\* review.js, fetchAllFileContents: files.map(async (file) => ...) starts one
\* fetch for each file that is not removed.
FetchAllFileContents ==
    /\ pc = "files"
    /\ pc' = "fetching"
    /\ impl' = "review.js"
    /\ pending' = {i \in 1..Len(changedFiles) : changedFiles[i].status # "removed"}
    /\ UNCHANGED <<changedFiles, fileContents, rawComments, ghComments, outcome,
                   remote, contentsMap, snippets>>
    /\ UNCHANGED outsideBatch

\* review.js, fetchAllFileContents: one fetch completes, in any order, and
\* its callback writes into the Map.
FetchFileContentResolves ==
    /\ pc = "fetching"
    /\ \E i \in pending :
           /\ pending' = pending \ {i}
           /\ contentsMap' = MapSet(contentsMap, changedFiles[i].filename,
                  split(GitHubService_fetchFileContent(remote[changedFiles[i].filename])))
    /\ UNCHANGED <<pc, impl, changedFiles, fileContents, rawComments, ghComments, outcome,
                   remote, snippets>>
    /\ UNCHANGED outsideBatch

\* review.js, main: Promise.all has resolved; FileManager.buildSnippets
BuildSnippets ==
    /\ pc = "fetching"
    /\ pending = {}
    /\ pc' = "snippets"
    /\ fileContents' = Binding(contentsMap)
    /\ snippets' = FileManager_buildSnippets(changedFiles, contentsMap, remote)
    /\ UNCHANGED <<impl, changedFiles, rawComments, ghComments, outcome,
                   remote, pending, contentsMap>>
    /\ UNCHANGED outsideBatch

\* review.js, submitReview: this._normalizeComments(comments, fileContents, changedFiles)
NormalizeComments ==
    /\ pc = "snippets"
    /\ impl = "review.js"
    /\ pc' = "done"
    /\ ghComments' = GitHubService_normalizeComments(rawComments, fileContents, changedFiles)
    /\ outcome' = IF ghComments'.threw THEN "failed" ELSE outcome
    /\ UNCHANGED <<impl, changedFiles, fileContents, rawComments,
                   remote, pending, contentsMap, snippets>>
    /\ UNCHANGED outsideBatch

\* part_000, main: fetchChangedFileContents; what it throws ends the run
FetchChangedFileContents ==
    /\ pc = "files"
    /\ impl' = "part_000"
    /\ LET fetched == fetchChangedFileContents(<<>>, changedFiles, remote)
       IN  /\ contentsMap' = fetched.map
           /\ IF fetched.threw
              THEN pc' = "done" /\ outcome' = "failed"
              ELSE pc' = "fetched" /\ outcome' = outcome
    /\ UNCHANGED <<changedFiles, fileContents, rawComments, ghComments,
                   remote, pending, snippets>>
    /\ UNCHANGED outsideBatch

\* part_000, main: buildFileSnippets; what it throws ends the run
BuildFileSnippets ==
    /\ pc = "fetched"
    /\ fileContents' = Binding(contentsMap)
    /\ snippets' = buildFileSnippets(changedFiles, contentsMap, remote)
    /\ IF snippets'.threw
       THEN pc' = "done" /\ outcome' = "failed"
       ELSE pc' = "snippets" /\ outcome' = outcome
    /\ UNCHANGED <<impl, changedFiles, rawComments, ghComments,
                   remote, pending, contentsMap>>
    /\ UNCHANGED outsideBatch

\* part_000, main: normalizeReviewComments(parsed.comments, fileContents, changedFiles)
NormalizeReviewComments ==
    /\ pc = "snippets"
    /\ impl = "part_000"
    /\ pc' = "done"
    /\ ghComments' = normalizeReviewComments(parseModelResponse_comments(rawComments),
                                             fileContents, changedFiles)
    /\ UNCHANGED <<impl, changedFiles, fileContents, rawComments, outcome,
                   remote, pending, contentsMap, snippets>>
    /\ UNCHANGED outsideBatch

NextBatch ==
    \/ FetchAllFileContents
    \/ FetchFileContentResolves
    \/ BuildSnippets
    \/ NormalizeComments
    \/ FetchChangedFileContents
    \/ BuildFileSnippets
    \/ NormalizeReviewComments

SpecBatch == InitBatch /\ [][NextBatch]_vars

(***************************************************************************)
(* Claims about the snippets and the comments of a batch of files          *)
(***************************************************************************)
SnippetsBuilt == pc \in {"snippets", "done"} /\ outcome # "failed"

HasBlock(filename) ==
    \E k \in 1..Len(snippets.blocks) : snippets.blocks[k].file = filename

IsHeader(line) == startsWith(line, <<"@", "@">>)

\* A '+' or ' ' line of the patch with no hunk header above it
ContentBeforeHeader(p) ==
    /\ p.has
    /\ Len(p.text) > 0
    /\ LET ls == split(p.text)
       IN  \E i \in 1..Len(ls) :
               /\ startsWith(ls[i], <<"+">>) \/ startsWith(ls[i], <<" ">>)
               /\ \A j \in 1..(i - 1) : ~IsHeader(ls[j])

\* C13: once the snippets are built, there is no block for a file whose
\* patch has a content line ('+' or ' ') before any hunk header.
C13_MalformedPatchSkipsFile ==
    SnippetsBuilt =>
        \A i \in 1..Len(changedFiles) :
            ContentBeforeHeader(changedFiles[i].patch) => ~HasBlock(changedFiles[i].filename)

\* The text of a file that is still there could not be retrieved
Unavailable(i) ==
    /\ changedFiles[i].status # "removed"
    /\ ~remote[changedFiles[i].filename].ok

\* The entry of rawComments is kept: a record for its file at its line
Kept(c) ==
    \E j \in 1..Len(ghComments.comments) :
        /\ ghComments.comments[j].path = c.filepath.s
        /\ ghComments.comments[j].line = ToNumber(c.start_line)

\* C14: when the text of a file cannot be retrieved, the run does not fail,
\* the block of that file holds the filename header and nothing else, and
\* every comment proposed for that file is kept whatever its line.
C14_ContentUnavailableIsBestEffort ==
    \A i \in 1..Len(changedFiles) :
        Unavailable(i) =>
            /\ outcome # "failed"
            /\ SnippetsBuilt =>
                   \A k \in 1..Len(snippets.blocks) :
                       snippets.blocks[k].file = changedFiles[i].filename =>
                           snippets.blocks[k].text
                               \in {<<"File: ">> \o changedFiles[i].filename,
                                    <<"File: ">> \o changedFiles[i].filename \o <<NL>>}
            /\ pc = "done" =>
                   \A k \in 1..Len(rawComments.items) :
                       rawComments.items[k].filepath.s = changedFiles[i].filename
                           => Kept(rawComments.items[k])

\* The files whose content cannot be fetched or that are removed
Failing == {i \in 1..Len(changedFiles) : Unavailable(i) \/ changedFiles[i].status = "removed"}

\* C15: when exactly one changed file fails (its content cannot be fetched,
\* or it is removed), the run does not fail, and at its end every other file
\* with changed lines has its block and every comment on another file is kept.
C15_OneFailingFileDoesNotAbort ==
    Cardinality(Failing) = 1 =>
        /\ outcome # "failed"
        /\ pc = "done" =>
               /\ \A j \in (1..Len(changedFiles)) \ Failing :
                      Len(parsePatchLineNumbers(changedFiles[j].patch)) > 0
                          => HasBlock(changedFiles[j].filename)
               /\ \A k \in 1..Len(rawComments.items) :
                      (\E j \in (1..Len(changedFiles)) \ Failing :
                           rawComments.items[k].filepath.s = changedFiles[j].filename)
                          => Kept(rawComments.items[k])

\* C16 as stated: the snippet text is never empty; it holds at least one
\* block or is one fixed placeholder.
C16_SnippetTextIsBlocksOrFixedPlaceholder ==
    SnippetsBuilt =>
        /\ Len(snippets.text) > 0
        /\ \/ Len(snippets.blocks) >= 1
           \/ snippets.text \in {NoParseableChanges, PatchDataUnavailable}

\* C16: the snippet text is never empty; it holds at least one block, or is
\* the placeholder of review.js, or begins with the label of the placeholder
\* of part_000 (which is followed by the names of the changed files).
C16_SnippetTextNeverEmpty ==
    SnippetsBuilt =>
        /\ Len(snippets.text) > 0
        /\ \/ Len(snippets.blocks) >= 1
           \/ snippets.text = NoParseableChanges
           \/ startsWith(snippets.text, PatchDataUnavailable)

C16_Witness ==
    /\ SnippetsBuilt
    /\ impl = "review.js"
    /\ Len(changedFiles) >= 1
    /\ Len(snippets.blocks) = 0

\* The binding fetchAllFileContents is to return: each file that is not
\* removed, bound to the lines of what its fetch returned
ExpectedBinding ==
    [f \in {changedFiles[i].filename : i \in {j \in 1..Len(changedFiles) :
                                                changedFiles[j].status # "removed"}} |->
        split(GitHubService_fetchFileContent(remote[f]))]

\* The Map when the fetches complete in the order of the files
RECURSIVE InFileOrder(_, _)
InFileOrder(map, files) ==
    IF Len(files) = 0 THEN map
    ELSE InFileOrder(
             IF Head(files).status = "removed" THEN map
             ELSE MapSet(map, Head(files).filename,
                         split(GitHubService_fetchFileContent(remote[Head(files).filename]))),
             Tail(files))

\* C20: in review.js, whatever the order in which the fetches complete, the
\* Map binds each fetched file to its lines, and the snippets and the
\* validated comments are those of the fetches completing in file order.
C20_FetchOrderDoesNotMatter ==
    impl = "review.js" =>
        /\ (pc = "fetching" /\ pending = {}) \/ pc \in {"snippets", "done"}
               => Binding(contentsMap) = ExpectedBinding
        /\ pc \in {"snippets", "done"}
               => snippets = FileManager_buildSnippets(
                                 changedFiles, InFileOrder(<<>>, changedFiles), remote)
        /\ pc = "done"
               => ghComments = GitHubService_normalizeComments(
                                   rawComments, ExpectedBinding, changedFiles)

C20_Witness ==
    /\ impl = "review.js"
    /\ pc = "done"
    /\ Len(contentsMap) = 2
    /\ contentsMap[1].key = changedFiles[2].filename
    /\ Len(snippets.blocks) >= 1
    /\ Len(ghComments.comments) >= 1

(***************************************************************************)
(* Claim about the calls of one run of review.js                           *)
(***************************************************************************)
CallsTo(api) == {i \in 1..Len(calls) : calls[i].api = api}

\* The calls made so far: none, pulls.createReview alone, or
\* pulls.createReview followed by issues.createComment
AtMostOneOfEach ==
    /\ Cardinality(CallsTo("createReview")) <= 1
    /\ Cardinality(CallsTo("createComment")) <= 1
    /\ \A i \in CallsTo("createComment") : \E j \in CallsTo("createReview") : j < i

\* A step that calls issues.createComment is taken while pulls.createReview
\* is awaited, that is, it is the catch block of its rejection.
CommentOnlyOnRejection ==
    (Len(calls') > Len(calls) /\ calls'[Len(calls')].api = "createComment")
        => (pc = "createReview" /\ calls[Len(calls)].api = "createReview")

\* A review that was accepted is followed by no further call.
AcceptedReviewIsFinal ==
    (pc = "exit" /\ outcome = "finished") => calls' = calls

\* C21: in every run of review.js, pulls.createReview is called at most once
\* and issues.createComment at most once; issues.createComment is called
\* only in the step that handles the rejection of the run's createReview
\* call, and nothing is called after a review was accepted.
C21_ReviewOrElseOneComment ==
    /\ [](impl = "review.js" => AtMostOneOfEach)
    /\ [][impl' = "review.js" => (CommentOnlyOnRejection /\ AcceptedReviewIsFinal)]_vars

\* A run of review.js whose review was rejected and whose comment was posted
C21_Witness ==
    /\ impl = "review.js"
    /\ pc = "exit"
    /\ outcome = "finished"
    /\ Len(calls) = 2
    /\ calls[1].api = "createReview"
    /\ calls[2].api = "createComment"

====
